---- MODULE Spec2Model ----
(***************************************************************************)
(* A model of app.py: the Streamlit page "Analise de Jogos de Futebol".    *)
(*                                                                         *)
(* A pandas DataFrame is a record [kind, columns, rows]: `columns` is the  *)
(* set of column labels, `rows` the rows in positional order, each row a   *)
(* record [index, cells] with its index label (a RangeIndex label that a   *)
(* boolean filter keeps) and a function from the column labels to the      *)
(* cell values.                                                            *)
(*                                                                         *)
(* A floating-point number is an exact fraction <<n, d>> in lowest terms,  *)
(* d > 0, and NaN is <<0, 0>>: rounding of binary floating point is not    *)
(* modelled.  Team names and column labels are the strings of the source.  *)
(***************************************************************************)
EXTENDS Integers, Sequences, FiniteSets, TLC

VARIABLES
    pc,          \* position in main(), or in a direct call of a function
    menu,        \* value of the sidebar selectbox "Escolha uma secao"
    url,         \* DATA_SOURCES[selected_db]
    data,        \* the local `data` of main(): None or a DataFrame
    checked,     \* what check_columns(data) returned
    team1,       \* sidebar selection "Escolha o time 1"
    team2,       \* sidebar selection "Escolha o time 2"
    recent1,     \* recent_stats_team1
    recent2,     \* recent_stats_team2
    stats1,      \* stats_team1
    stats2,      \* stats_team2
    odds,        \* (avg_odds, odds_over_under)
    charts,      \* the figures handed to st.plotly_chart, in order
    errors,      \* the st.error messages shown, in order
    calls        \* the functions main() has invoked, in order, with outcome

vars == <<pc, menu, url, data, checked, team1, team2, recent1, recent2,
          stats1, stats2, odds, charts, errors, calls>>

-----------------------------------------------------------------------------
(* Bounds of the model.                                                    *)

\* how many of the known columns a loaded workbook may lack
MaxMissing == 2
\* rows of a dataset handed to get_recent_stats
MaxRecentRows == 6
\* rows of a dataset handed to get_team_stats
MaxTeamRows == 2
\* largest goal count in a generated row
MaxGoal == 1
\* rows of a dataset handed to calculate_average_odds
MaxOddsRows == 2
\* largest odd in a generated row
MaxOdd == 3

\* DataFrame.tail(5) in get_recent_stats
TailN == 5

-----------------------------------------------------------------------------
(* Floating point values as exact fractions.                               *)

RECURSIVE GCD(_, _)
GCD(a, b) == IF b = 0 THEN a ELSE GCD(b, a % b)

NaN == <<0, 0>>
Num(n) == <<n, 1>>
IsNaN(x) == x[2] = 0
Frac(n, d) == LET g == GCD(n, d) IN <<n \div g, d \div g>>
Add(x, y) == Frac(x[1] * y[2] + y[1] * x[2], x[2] * y[2])
DivInt(x, k) == Frac(x[1], x[2] * k)

\* the values of a Series that are not missing (skipna=True)
DropNa(s) == SelectSeq(s, LAMBDA x : ~IsNaN(x))

RECURSIVE AddAll(_)
AddAll(s) == IF Len(s) = 0 THEN Num(0) ELSE Add(s[1], AddAll(Tail(s)))

\* Series.sum(): missing values are skipped, the sum of nothing is 0
SeriesSum(s) == AddAll(DropNa(s))

\* Series.mean(): missing values are skipped, the mean of nothing is NaN
SeriesMean(s) ==
    LET v == DropNa(s)
    IN  IF Len(v) = 0 THEN NaN ELSE DivInt(AddAll(v), Len(v))

-----------------------------------------------------------------------------
(* Values and DataFrames.                                                  *)

None == [kind |-> "None"]
NoValue == [exc |-> "NotRun", val |-> "NotRun"]
Ok(v) == [exc |-> "None", val |-> v]
KeyError(k) == [exc |-> "KeyError", val |-> k]

DataFrame(cols, rws) == [kind |-> "DataFrame", columns |-> cols, rows |-> rws]

\* data[c] as a sequence in positional order
Column(df, c) == [i \in 1..Len(df.rows) |-> df.rows[i].cells[c]]

\* (data[mask] is DataFrame(columns, SelectSeq(rows, mask)): the rows that
\* satisfy the mask, order and index labels kept)

\* the first label of `wanted` (a sequence, in the order the code reads)
\* that is no column of df; "" when all are columns
FirstMissing(df, wanted) ==
    LET miss == SelectSeq(wanted, LAMBDA c : c \notin df.columns)
    IN  IF Len(miss) = 0 THEN "" ELSE miss[1]

-----------------------------------------------------------------------------
(* The columns of the workbooks and the cells of a row.                    *)

\* required_columns of check_columns, in the order of the list
required_columns ==
    << "ShotsOnTarget_H", "ShotsOnTarget_A",
       "ShotsOffTarget_H", "ShotsOffTarget_A",
       "Corners_H_FT", "Corners_A_FT",
       "Odd_H_FT", "Odd_D_FT", "Odd_A_FT",
       "Odd_Over05_FT", "Odd_Over05_HT",
       "Odd_Under05_FT", "Odd_Under05_HT",
       "Odd_Over15_FT", "Odd_Over15_HT",
       "Odd_Under15_FT", "Odd_Under15_HT",
       "Odd_Over25_FT", "Odd_Over25_HT",
       "Odd_Under25_FT", "Odd_Under25_HT" >>

Range(s) == {s[i] : i \in 1..Len(s)}

\* the columns that get_recent_stats projects to, in the order of the list
recent_columns ==
    << "Date", "Home", "Away", "Goals_H_FT", "Goals_A_FT",
       "ShotsOnTarget_H", "ShotsOnTarget_A",
       "ShotsOffTarget_H", "ShotsOffTarget_A",
       "Corners_H_FT", "Corners_A_FT" >>

\* every column a function of app.py reads
KnownColumns == Range(required_columns) \cup Range(recent_columns)

\* the keys of DATA_SOURCES
DATA_SOURCES == {"Argentina Primeira Division", "Brasileirao Serie A"}

\* the options of the section selectbox (ASCII transliteration)
MENU == {"Estatisticas", "Analise de Sentimentos", "Previsao de Partidas"}

Teams == {"Alpha", "Beta"}

\* a datetime cell as read_excel delivers it
Timestamp(k) == [year |-> 2024, month |-> 3, day |-> k, hour |-> 20, minute |-> 0]

Pad2(n) == IF n < 10 THEN "0" \o ToString(n) ELSE ToString(n)

\* .dt.strftime('%d-%m-%Y %H:%M')
strftime(ts) ==
    Pad2(ts.day) \o "-" \o Pad2(ts.month) \o "-" \o ToString(ts.year)
        \o " " \o Pad2(ts.hour) \o ":" \o Pad2(ts.minute)

\* The cell of column c in a generated row r = [Date, Home, Away, gh, ga,
\* ft, ht].  Shots and corners are fixed; every full-time "over" odd and
\* half-time "under" odd is r.ft, every other over/under odd r.ht.
Cell(c, r) ==
    CASE c = "Date" -> r.Date
      [] c = "Home" -> r.Home
      [] c = "Away" -> r.Away
      [] c = "Goals_H_FT" -> r.gh
      [] c = "Goals_A_FT" -> r.ga
      [] c = "ShotsOnTarget_H" -> Num(5)
      [] c = "ShotsOnTarget_A" -> Num(4)
      [] c = "ShotsOffTarget_H" -> Num(7)
      [] c = "ShotsOffTarget_A" -> Num(6)
      [] c = "Corners_H_FT" -> Num(3)
      [] c = "Corners_A_FT" -> Num(2)
      [] c \in {"Odd_H_FT", "Odd_A_FT", "Odd_Over05_FT", "Odd_Over15_FT",
                "Odd_Over25_FT", "Odd_Under05_HT", "Odd_Under15_HT",
                "Odd_Under25_HT"} -> r.ft
      [] OTHER -> r.ht

\* a DataFrame with the given columns from generated rows; the index is
\* the RangeIndex 0..n-1
Frame(cols, raw) ==
    DataFrame(cols,
              [i \in 1..Len(raw) |->
                  [index |-> i - 1, cells |-> [c \in cols |-> Cell(c, raw[i])]]])

RawRow(k, h, a, gh, ga, ft, ht) ==
    [Date |-> Timestamp(k), Home |-> h, Away |-> a, gh |-> gh, ga |-> ga,
     ft |-> ft, ht |-> ht]

RECURSIVE SubsetsUpTo(_, _)
SubsetsUpTo(S, k) ==
    IF k = 0 THEN {{}}
    ELSE LET P == SubsetsUpTo(S, k - 1)
         IN  P \cup {p \cup {x} : p \in P, x \in S}

RECURSIVE SeqsUpTo(_, _)
\* the sequences over S of length at most n
SeqsUpTo(S, n) ==
    IF n = 0 THEN {<< >>}
    ELSE LET P == SeqsUpTo(S, n - 1)
         IN  P \cup {Append(p, x) : p \in {q \in P : Len(q) = n - 1}, x \in S}

-----------------------------------------------------------------------------
(* The functions of app.py.                                                *)

\* a wrong DataFrame.tail: the first n rows
tail_head(df, n) ==
    DataFrame(df.columns,
              SubSeq(df.rows, 1, IF Len(df.rows) > n THEN n ELSE Len(df.rows)))

\* DataFrame.tail(n): the last n rows, in their order
tail(df, n) ==
    DataFrame(df.columns,
              SubSeq(df.rows,
                     IF Len(df.rows) > n THEN Len(df.rows) - n + 1 ELSE 1,
                     Len(df.rows)))

\* get_recent_stats(team, data), lines 26-32
get_recent_stats(team, df) ==
    LET k1 == FirstMissing(df, <<"Home", "Away">>)
        matches ==
            DataFrame(df.columns,
                      SelectSeq(df.rows, LAMBDA r : r.cells["Home"] = team
                                                     \/ r.cells["Away"] = team))
        recent_matches == tail(matches, TailN)
        \* recent_matches['Date'] = pd.to_datetime(...).dt.strftime(...)
        formatted ==
            DataFrame(recent_matches.columns \cup {"Date"},
                [i \in 1..Len(recent_matches.rows) |->
                    [recent_matches.rows[i] EXCEPT
                        !.cells = [c \in recent_matches.columns \cup {"Date"} |->
                            IF c = "Date" THEN strftime(@["Date"]) ELSE @[c]]]])
        k3 == FirstMissing(formatted, recent_columns)
        recent_stats ==
            DataFrame(Range(recent_columns),
                [i \in 1..Len(formatted.rows) |->
                    [formatted.rows[i] EXCEPT
                        !.cells = [c \in Range(recent_columns) |-> @[c]]]])
    IN  IF k1 # "" THEN KeyError(k1)
        ELSE IF "Date" \notin df.columns THEN KeyError("Date")
        ELSE IF k3 # "" THEN KeyError(k3)
        ELSE Ok(recent_stats)

\* a wrong home filter: every match of the team
home_subset_any(team, df) ==
    DataFrame(df.columns,
              SelectSeq(df.rows, LAMBDA r : r.cells["Home"] = team
                                             \/ r.cells["Away"] = team))

\* data[data['Home'] == team], line 36
home_subset(team, df) ==
    DataFrame(df.columns, SelectSeq(df.rows, LAMBDA r : r.cells["Home"] = team))

\* a wrong away filter: the home filter pasted again
away_subset_home(team, df) ==
    DataFrame(df.columns, SelectSeq(df.rows, LAMBDA r : r.cells["Home"] = team))

\* data[data['Away'] == team], line 44
away_subset(team, df) ==
    DataFrame(df.columns, SelectSeq(df.rows, LAMBDA r : r.cells["Away"] = team))

\* DataFrame.agg(how).to_dict() for a dict `how` with a list among its
\* values: every value is then treated as a list, the result has one row
\* per function name, and a function not asked for a column leaves NaN
agg(df, how) ==
    [c \in DOMAIN how |->
        [mean |-> IF "mean" \in how[c] THEN SeriesMean(Column(df, c)) ELSE NaN,
         sum  |-> IF "sum" \in how[c] THEN SeriesSum(Column(df, c)) ELSE NaN]]

\* the dict handed to agg on lines 36-42
home_how ==
    [c \in {"Goals_H_FT", "Goals_A_FT", "ShotsOnTarget_H", "ShotsOffTarget_H",
            "Corners_H_FT"} |->
        IF c \in {"Goals_H_FT", "Goals_A_FT"} THEN {"mean", "sum"} ELSE {"mean"}]

\* the dict handed to agg on lines 44-50
away_how ==
    [c \in {"Goals_A_FT", "Goals_H_FT", "ShotsOnTarget_A", "ShotsOffTarget_A",
            "Corners_A_FT"} |->
        IF c \in {"Goals_A_FT", "Goals_H_FT"} THEN {"mean", "sum"} ELSE {"mean"}]

home_stats(team, df) == agg(home_subset(team, df), home_how)

away_stats(team, df) == agg(away_subset(team, df), away_how)

\* the dict `stats` of lines 52-71
stats(hs, as) ==
    [home |->
        [k \in {"Avg Goals Scored", "Total Goals Scored", "Avg Goals Conceded",
                "Total Goals Conceded", "Avg Shots on Target",
                "Avg Shots off Target", "Avg Corners"} |->
            CASE k = "Avg Goals Scored" -> hs["Goals_H_FT"].mean
              [] k = "Total Goals Scored" -> hs["Goals_H_FT"].sum
              [] k = "Avg Goals Conceded" -> hs["Goals_A_FT"].mean
              [] k = "Total Goals Conceded" -> hs["Goals_A_FT"].sum
              [] k = "Avg Shots on Target" -> hs["ShotsOnTarget_H"]
              [] k = "Avg Shots off Target" -> hs["ShotsOffTarget_H"]
              [] OTHER -> hs["Corners_H_FT"]],
     away |->
        [k \in {"Avg Goals Scored", "Total Goals Scored", "Avg Goals Conceded",
                "Total Goals Conceded", "Avg Shots on Target",
                "Avg Shots off Target", "Avg Corners"} |->
            CASE k = "Avg Goals Scored" -> as["Goals_A_FT"].mean
              [] k = "Total Goals Scored" -> as["Goals_A_FT"].sum
              [] k = "Avg Goals Conceded" -> as["Goals_H_FT"].mean
              [] k = "Total Goals Conceded" -> as["Goals_H_FT"].sum
              [] k = "Avg Shots on Target" -> as["ShotsOnTarget_A"]
              [] k = "Avg Shots off Target" -> as["ShotsOffTarget_A"]
              [] OTHER -> as["Corners_A_FT"]]]

\* the columns get_team_stats reads, in the order it reads them
team_stats_columns ==
    << "Home", "Goals_H_FT", "Goals_A_FT", "ShotsOnTarget_H",
       "ShotsOffTarget_H", "Corners_H_FT",
       "Away", "ShotsOnTarget_A", "ShotsOffTarget_A", "Corners_A_FT" >>

\* get_team_stats(team, data), lines 34-72
get_team_stats(team, df) ==
    LET k == FirstMissing(df, team_stats_columns)
    IN  IF k # "" THEN KeyError(k)
        ELSE Ok(stats(home_stats(team, df), away_stats(team, df)))

\* a wrong two-step mean: the mean over the rows (axis=1) comes first
over_under_rowwise(df, ft, ht) ==
    SeriesMean([i \in 1..Len(df.rows) |->
                   SeriesMean(<< df.rows[i].cells[ft], df.rows[i].cells[ht] >>)])

\* data[[ft, ht]].mean().mean(), lines 83-88: DataFrame.mean() is the mean
\* of each column, Series.mean() then the mean of those two
over_under(df, ft, ht) ==
    SeriesMean(<< SeriesMean(Column(df, ft)), SeriesMean(Column(df, ht)) >>)

\* the columns calculate_average_odds reads, in the order it reads them
odds_columns == SubSeq(required_columns, 7, 21)

\* calculate_average_odds(data), lines 74-91
calculate_average_odds(df) ==
    LET k == FirstMissing(df, odds_columns)
        avg_odds ==
            [o \in {"Home Win", "Draw", "Away Win"} |->
                CASE o = "Home Win" -> SeriesMean(Column(df, "Odd_H_FT"))
                  [] o = "Draw" -> SeriesMean(Column(df, "Odd_D_FT"))
                  [] OTHER -> SeriesMean(Column(df, "Odd_A_FT"))]
        odds_over_under ==
            [b \in {"Over 0.5", "Under 0.5", "Over 1.5", "Under 1.5",
                    "Over 2.5", "Under 2.5"} |->
                CASE b = "Over 0.5" -> over_under(df, "Odd_Over05_FT", "Odd_Over05_HT")
                  [] b = "Under 0.5" -> over_under(df, "Odd_Under05_FT", "Odd_Under05_HT")
                  [] b = "Over 1.5" -> over_under(df, "Odd_Over15_FT", "Odd_Over15_HT")
                  [] b = "Under 1.5" -> over_under(df, "Odd_Under15_FT", "Odd_Under15_HT")
                  [] b = "Over 2.5" -> over_under(df, "Odd_Over25_FT", "Odd_Over25_HT")
                  [] OTHER -> over_under(df, "Odd_Under25_FT", "Odd_Under25_HT")]
    IN  IF k # "" THEN KeyError(k)
        ELSE Ok([avg_odds |-> avg_odds, odds_over_under |-> odds_over_under])

RECURSIVE Join(_, _)
\* sep.join(s)
Join(s, sep) ==
    IF Len(s) = 0 THEN ""
    ELSE IF Len(s) = 1 THEN s[1]
    ELSE s[1] \o sep \o Join(Tail(s), sep)

\* a wrong missing_columns: stops at the first column found missing
missing_columns_first(df) ==
    LET all == SelectSeq(required_columns, LAMBDA col : col \notin df.columns)
    IN  IF Len(all) = 0 THEN all ELSE << all[1] >>

\* missing_columns of check_columns, line 107
missing_columns(df) ==
    SelectSeq(required_columns, LAMBDA col : col \notin df.columns)

\* check_columns(data), lines 93-111: the value returned and the st.error
\* messages shown (each with the list it was formatted from)
check_columns(df) ==
    LET missing == missing_columns(df)
    IN  IF Len(missing) # 0
        THEN [ret |-> FALSE,
              errors |-> << [text |-> "Faltam colunas no DataFrame: "
                                        \o Join(missing, ", "),
                             listed |-> missing] >>]
        ELSE [ret |-> TRUE, errors |-> << >>]

\* plot_stats(...), lines 113-155: the titles of the figures shown, in
\* order; the three dataset-wide figures need the six shot/corner columns
plot_stats(home_team, away_team, df) ==
    << "Estatisticas de " \o home_team \o " como Mandante",
       "Estatisticas de " \o away_team \o " como Visitante",
       "Odds Medias",
       "Odds Over/Under" >>
    \o (IF Range(SubSeq(required_columns, 1, 6)) \subseteq df.columns
        THEN << "Chutes no Alvo", "Chutes Fora do Alvo", "Cantos" >>
        ELSE << >>)

\* load_data(url), lines 11-18, given what pd.read_excel(url) does: it
\* returns a workbook or raises.  (st.cache_data only replays an earlier
\* return value for the same url.)
load_data(outcome) ==
    IF outcome.kind = "Exception"
    THEN [ret |-> None,
          errors |-> << [text |-> "Error loading data: " \o outcome.text,
                         listed |-> << >>] >>]
    ELSE [ret |-> outcome, errors |-> << >>]

-----------------------------------------------------------------------------
(* What pd.read_excel may deliver to main().                               *)

\* the rows of the sample workbooks; each has a match, so that the team
\* selectboxes of lines 176-177 have an option to return
MainRaws ==
    { << RawRow(1, "Alpha", "Beta", Num(2), Num(1), Num(2), Num(3)) >>,
      << RawRow(1, "Alpha", "Beta", Num(2), Num(1), Num(2), NaN),
         RawRow(2, "Beta", "Alpha", Num(0), NaN, Num(3), Num(3)) >> }

\* workbooks lacking at most MaxMissing of the known columns
Workbooks ==
    {Frame(KnownColumns \ m, raw) :
        m \in SubsetsUpTo(KnownColumns, MaxMissing), raw \in MainRaws}

ReadExcelOutcomes ==
    Workbooks \cup {[kind |-> "Exception", text |-> "HTTP Error 404: Not Found"]}

-----------------------------------------------------------------------------
(* main(), lines 158-206, one action per statement group.                  *)

Called(fn, ret) == Append(calls, [fn |-> fn, ret |-> ret])

Outcome(r) == IF r.exc = "None" THEN "ok" ELSE r.exc

Init ==
    /\ pc = "menu"
    /\ menu = ""
    /\ url = ""
    /\ data = None
    /\ checked = FALSE
    /\ team1 = ""
    /\ team2 = ""
    /\ recent1 = NoValue
    /\ recent2 = NoValue
    /\ stats1 = NoValue
    /\ stats2 = NoValue
    /\ odds = NoValue
    /\ charts = << >>
    /\ errors = << >>
    /\ calls = << >>

\* lines 162-167, 195, 204: the section selectbox
Main_Menu ==
    /\ pc = "menu"
    /\ \E m \in MENU :
        /\ menu' = m
        /\ pc' = CASE m = "Estatisticas" -> "load"
                   [] m = "Analise de Sentimentos" -> "sentiment"
                   [] OTHER -> "done"
    /\ UNCHANGED <<url, data, checked, team1, team2, recent1, recent2,
                   stats1, stats2, odds, charts, errors, calls>>

\* lines 199-202: TextBlob is never imported, so a non-empty text raises
\* NameError
Main_Sentiment ==
    /\ pc = "sentiment"
    /\ \E text \in {"", "bom jogo"} :
        IF text # ""
        THEN /\ pc' = "crashed"
             /\ calls' = Called("TextBlob", "NameError")
        ELSE /\ pc' = "done"
             /\ UNCHANGED calls
    /\ UNCHANGED <<menu, url, data, checked, team1, team2, recent1, recent2,
                   stats1, stats2, odds, charts, errors>>

\* lines 171-173
Main_LoadData ==
    /\ pc = "load"
    /\ \E selected_db \in DATA_SOURCES, outcome \in ReadExcelOutcomes :
        LET r == load_data(outcome)
        IN  /\ url' = selected_db
            /\ data' = r.ret
            /\ errors' = errors \o r.errors
            /\ calls' = Called("load_data", r.ret.kind)
            \* line 175, left operand of `and`
            /\ pc' = IF r.ret.kind # "None" THEN "check" ELSE "done"
    /\ UNCHANGED <<menu, checked, team1, team2, recent1, recent2, stats1,
                   stats2, odds, charts>>

\* a wrong branch: the return value of check_columns is ignored
AfterCheck_ignored(ret) == "teams"

\* the branch main() takes on check_columns' return value, line 175
AfterCheck(ret) == IF ret THEN "teams" ELSE "done"

\* line 175, right operand of `and`
Main_CheckColumns ==
    /\ pc = "check"
    /\ LET r == check_columns(data)
       IN  /\ checked' = r.ret
           /\ errors' = errors \o r.errors
           /\ calls' = Called("check_columns", IF r.ret THEN "True" ELSE "False")
           /\ pc' = AfterCheck(r.ret)
    /\ UNCHANGED <<menu, url, data, team1, team2, recent1, recent2, stats1,
                   stats2, odds, charts>>

\* pd.concat([data['Home'], data['Away']]).unique()
team_options(df) == Range(Column(df, "Home")) \cup Range(Column(df, "Away"))

\* lines 176-177
Main_SelectTeams ==
    /\ pc = "teams"
    /\ IF FirstMissing(data, <<"Home", "Away">>) # ""
       THEN /\ pc' = "crashed"
            /\ calls' = Called("main", "KeyError")
            /\ UNCHANGED <<team1, team2>>
       ELSE /\ \E t1 \in team_options(data), t2 \in team_options(data) :
                /\ team1' = t1
                /\ team2' = t2
            /\ pc' = "recent1"
            /\ UNCHANGED calls
    /\ UNCHANGED <<menu, url, data, checked, recent1, recent2, stats1,
                   stats2, odds, charts, errors>>

\* lines 180-182
Main_RecentStats1 ==
    /\ pc = "recent1"
    /\ LET r == get_recent_stats(team1, data)
       IN  /\ recent1' = r
           /\ calls' = Called("get_recent_stats", Outcome(r))
           /\ pc' = IF r.exc = "None" THEN "recent2" ELSE "crashed"
    /\ UNCHANGED <<menu, url, data, checked, team1, team2, recent2, stats1,
                   stats2, odds, charts, errors>>

\* lines 185-187
Main_RecentStats2 ==
    /\ pc = "recent2"
    /\ LET r == get_recent_stats(team2, data)
       IN  /\ recent2' = r
           /\ calls' = Called("get_recent_stats", Outcome(r))
           /\ pc' = IF r.exc = "None" THEN "stats1" ELSE "crashed"
    /\ UNCHANGED <<menu, url, data, checked, team1, team2, recent1, stats1,
                   stats2, odds, charts, errors>>

\* line 190
Main_TeamStats1 ==
    /\ pc = "stats1"
    /\ LET r == get_team_stats(team1, data)
       IN  /\ stats1' = r
           /\ calls' = Called("get_team_stats", Outcome(r))
           /\ pc' = IF r.exc = "None" THEN "stats2" ELSE "crashed"
    /\ UNCHANGED <<menu, url, data, checked, team1, team2, recent1, recent2,
                   stats2, odds, charts, errors>>

\* line 191
Main_TeamStats2 ==
    /\ pc = "stats2"
    /\ LET r == get_team_stats(team2, data)
       IN  /\ stats2' = r
           /\ calls' = Called("get_team_stats", Outcome(r))
           /\ pc' = IF r.exc = "None" THEN "odds" ELSE "crashed"
    /\ UNCHANGED <<menu, url, data, checked, team1, team2, recent1, recent2,
                   stats1, odds, charts, errors>>

\* line 192
Main_AverageOdds ==
    /\ pc = "odds"
    /\ LET r == calculate_average_odds(data)
       IN  /\ odds' = r
           /\ calls' = Called("calculate_average_odds", Outcome(r))
           /\ pc' = IF r.exc = "None" THEN "plot" ELSE "crashed"
    /\ UNCHANGED <<menu, url, data, checked, team1, team2, recent1, recent2,
                   stats1, stats2, charts, errors>>

\* line 193
Main_PlotStats ==
    /\ pc = "plot"
    /\ charts' = plot_stats(team1, team2, data)
    /\ calls' = Called("plot_stats", "ok")
    /\ pc' = "done"
    /\ UNCHANGED <<menu, url, data, checked, team1, team2, recent1, recent2,
                   stats1, stats2, odds, errors>>

Next ==
    \/ Main_Menu
    \/ Main_Sentiment
    \/ Main_LoadData
    \/ Main_CheckColumns
    \/ Main_SelectTeams
    \/ Main_RecentStats1
    \/ Main_RecentStats2
    \/ Main_TeamStats1
    \/ Main_TeamStats2
    \/ Main_AverageOdds
    \/ Main_PlotStats

Spec == Init /\ [][Next]_vars

-----------------------------------------------------------------------------
(* Direct calls of the three aggregation functions on generated datasets   *)
(* that have every known column.                                           *)

\* a team that plays in no generated row
QueryTeams == Teams \cup {"Zeta"}

Fixtures == Teams \X Teams

GoalValues == {NaN} \cup {Num(g) : g \in 0..MaxGoal}

OddValues == {NaN} \cup {Num(o) : o \in 1..MaxOdd}

\* fixtures in any order, dated in ascending or in descending order
RecentRaws ==
    {[i \in 1..Len(p) |->
        RawRow(IF asc THEN i ELSE Len(p) + 1 - i, p[i][1], p[i][2],
               Num(1), Num(0), Num(2), Num(2))] :
        p \in SeqsUpTo(Fixtures, MaxRecentRows), asc \in BOOLEAN}

\* "Alpha" at home twice (goals 2, 1) and away once (0 goals)
ScenarioRaw ==
    << RawRow(1, "Alpha", "Beta", Num(2), Num(0), Num(2), Num(2)),
       RawRow(2, "Beta", "Alpha", Num(3), Num(0), Num(2), Num(2)),
       RawRow(3, "Alpha", "Beta", Num(1), Num(1), Num(2), Num(2)) >>

\* fixtures with any goal counts, some of them missing
TeamRaws ==
    {[i \in 1..Len(p) |->
        RawRow(i, p[i][1][1], p[i][1][2], p[i][2], p[i][3], Num(2), Num(2))] :
        p \in SeqsUpTo(Fixtures \X GoalValues \X GoalValues, MaxTeamRows)}
    \cup {ScenarioRaw}

\* one fixture with any odds, some of them missing
OddsRaws ==
    {[i \in 1..Len(p) |->
        RawRow(i, "Alpha", "Beta", Num(1), Num(0), p[i][1], p[i][2])] :
        p \in SeqsUpTo(OddValues \X OddValues, MaxOddsRows)}

InitCall(raws, teams) ==
    /\ pc = "call"
    /\ menu = ""
    /\ url = ""
    /\ \E raw \in raws : data = Frame(KnownColumns, raw)
    /\ checked = FALSE
    /\ team1 \in teams
    /\ team2 = ""
    /\ recent1 = NoValue
    /\ recent2 = NoValue
    /\ stats1 = NoValue
    /\ stats2 = NoValue
    /\ odds = NoValue
    /\ charts = << >>
    /\ errors = << >>
    /\ calls = << >>

InitRecent == InitCall(RecentRaws, QueryTeams)

Call_get_recent_stats ==
    /\ pc = "call"
    /\ recent1' = get_recent_stats(team1, data)
    /\ pc' = "returned"
    /\ UNCHANGED <<menu, url, data, checked, team1, team2, recent2, stats1,
                   stats2, odds, charts, errors, calls>>

NextRecent == Call_get_recent_stats

SpecRecent == InitRecent /\ [][NextRecent]_vars

\* TeamRaws is closed under exchanging "Alpha" and "Beta", so "Alpha" stands
\* for both
InitTeam == InitCall(TeamRaws, {"Alpha", "Zeta"})

Call_get_team_stats ==
    /\ pc = "call"
    /\ stats1' = get_team_stats(team1, data)
    /\ pc' = "returned"
    /\ UNCHANGED <<menu, url, data, checked, team1, team2, recent1, recent2,
                   stats2, odds, charts, errors, calls>>

NextTeam == Call_get_team_stats

SpecTeam == InitTeam /\ [][NextTeam]_vars

InitOdds == InitCall(OddsRaws, {""})

Call_calculate_average_odds ==
    /\ pc = "call"
    /\ odds' = calculate_average_odds(data)
    /\ pc' = "returned"
    /\ UNCHANGED <<menu, url, data, checked, team1, team2, recent1, recent2,
                   stats1, stats2, charts, errors, calls>>

NextOdds == Call_calculate_average_odds

SpecOdds == InitOdds /\ [][NextOdds]_vars

-----------------------------------------------------------------------------
(* Properties of main() and check_columns, checked under Spec.             *)

\* the required columns as the design enumerates them: shots on and off
\* target and corners for both sides, three result odds, and the over and
\* under odds at three thresholds for both halves
DesignRequired ==
    {p \o side : p \in {"ShotsOnTarget_", "ShotsOffTarget_"}, side \in {"H", "A"}}
    \cup {"Corners_" \o side \o "_FT" : side \in {"H", "A"}}
    \cup {"Odd_" \o r \o "_FT" : r \in {"H", "D", "A"}}
    \cup {"Odd_" \o d \o t \o "_" \o half :
             d \in {"Over", "Under"}, t \in {"05", "15", "25"},
             half \in {"FT", "HT"}}

Aggregators ==
    {"get_recent_stats", "get_team_stats", "calculate_average_odds", "plot_stats"}

NoDerivedView ==
    /\ recent1 = NoValue
    /\ recent2 = NoValue
    /\ stats1 = NoValue
    /\ stats2 = NoValue
    /\ odds = NoValue
    /\ charts = << >>

\* C1: an aggregation function or plot_stats is invoked only after
\* load_data returned a DataFrame and check_columns then returned True for
\* it; and while the dataset is None or lacks a required column, no
\* derived view exists.
C1_ViewsOnlyAfterValidation ==
    /\ \A i \in 1..Len(calls) :
          calls[i].fn \in Aggregators =>
             /\ \E j \in 1..(i - 1) :
                   /\ calls[j] = [fn |-> "check_columns", ret |-> "True"]
                   /\ \E k \in 1..(j - 1) :
                         calls[k] = [fn |-> "load_data", ret |-> "DataFrame"]
             /\ data.kind = "DataFrame"
             /\ DesignRequired \subseteq data.columns
    /\ (data.kind = "None" \/ ~(DesignRequired \subseteq data.columns))
          => NoDerivedView

\* main() has stopped after check_columns refused a loaded workbook
C1_Witness ==
    /\ pc = "done"
    /\ data.kind = "DataFrame"
    /\ Len(calls) = 2
    /\ calls[2] = [fn |-> "check_columns", ret |-> "False"]
    /\ NoDerivedView

CheckColumnsReturned ==
    Len(calls) >= 2 /\ calls[2].fn = "check_columns"

\* C2: check_columns returns True exactly when all 21 required columns are
\* present; otherwise it returns False and its message lists exactly the
\* required columns that are absent, each once; a workbook lacking only
\* Corners_A_FT is reported with exactly Corners_A_FT.
C2_ExactMissingList ==
    CheckColumnsReturned =>
        LET absent == DesignRequired \ data.columns
        IN  /\ Cardinality(DesignRequired) = 21
            /\ checked <=> absent = {}
            /\ absent = {} => errors = << >>
            /\ absent # {} =>
                  /\ Len(errors) = 1
                  /\ Range(errors[1].listed) = absent
                  /\ Len(errors[1].listed) = Cardinality(absent)
            /\ data.columns = KnownColumns \ {"Corners_A_FT"} =>
                  errors[1].text = "Faltam colunas no DataFrame: Corners_A_FT"

\* check_columns has refused a workbook that lacks two required columns
C2_Witness ==
    /\ CheckColumnsReturned
    /\ ~checked
    /\ data.columns = KnownColumns \ {"Corners_A_FT", "Odd_D_FT"}
    /\ errors[1].text = "Faltam colunas no DataFrame: Corners_A_FT, Odd_D_FT"

\* C3: a dataset for which check_columns returned True has every column
\* that get_team_stats and calculate_average_odds read.
C3_ValidatedHasAggregatorColumns ==
    (CheckColumnsReturned /\ checked) =>
        (Range(team_stats_columns) \cup Range(odds_columns)) \subseteq data.columns

-----------------------------------------------------------------------------
(* Properties of the aggregation functions, checked on direct calls.       *)

Returned == pc = "returned"

\* positions of the rows of `data` in which the team plays at home, away
HomeAt(team) == {i \in 1..Len(data.rows) : data.rows[i].cells["Home"] = team}
AwayAt(team) == {i \in 1..Len(data.rows) : data.rows[i].cells["Away"] = team}
PlaysAt(team) == HomeAt(team) \cup AwayAt(team)

\* the index labels of the rows of a DataFrame
Labels(df) == {df.rows[i].index : i \in 1..Len(df.rows)}

\* C4: get_recent_stats returns min(5, k) records, k the number of rows
\* with the team at home or away; each returned record involves the team;
\* they are the last min(5, k) such rows, in the dataset's positional
\* order whatever their dates.
C4_LastFiveInPositionalOrder ==
    Returned =>
        LET k == Cardinality(PlaysAt(team1))
            out == recent1.val.rows
            last == {i \in PlaysAt(team1) :
                        Cardinality({j \in PlaysAt(team1) : j > i}) < 5}
        IN  /\ recent1.exc = "None"
            /\ Len(out) = IF k < 5 THEN k ELSE 5
            /\ \A j \in 1..Len(out) :
                  out[j].cells["Home"] = team1 \/ out[j].cells["Away"] = team1
            /\ {out[j].index + 1 : j \in 1..Len(out)} = last
            /\ \A j \in 1..(Len(out) - 1) : out[j].index < out[j + 1].index

\* six matches of the team, dated in descending order, and five returned
C4_Witness ==
    /\ Returned
    /\ Cardinality(PlaysAt(team1)) = 6
    /\ data.rows[1].cells["Date"].day = 6
    /\ Len(recent1.val.rows) = 5
    /\ recent1.val.rows[1].cells["Date"] = "05-03-2024 20:00"

RECURSIVE SumOver(_, _)
\* the values of column c summed over the positions in I, missing ones left
\* out (the cells of the generated rows are whole numbers)
SumOver(I, c) ==
    IF I = {} THEN 0
    ELSE LET i == CHOOSE x \in I : TRUE
             v == data.rows[i].cells[c]
         IN  (IF IsNaN(v) THEN 0 ELSE v[1]) + SumOver(I \ {i}, c)

\* the number of positions in I with a value in column c
Present(I, c) == Cardinality({i \in I : ~IsNaN(data.rows[i].cells[c])})

\* m is the mean of column c over the positions in I
IsMeanOver(m, I, c) ==
    IF Present(I, c) = 0 THEN IsNaN(m)
    ELSE ~IsNaN(m) /\ m[1] * Present(I, c) = SumOver(I, c) * m[2]

\* t is the total of column c over the positions in I
IsTotalOver(t, I, c) == t = <<SumOver(I, c), 1>>

\* C5: for a team with a home and an away match, the home summary takes
\* "scored" from Goals_H_FT and "conceded" from Goals_A_FT over exactly the
\* rows with Home == team, the away summary "scored" from Goals_A_FT and
\* "conceded" from Goals_H_FT over exactly the rows with Away == team; home
\* goals 2 and 1 and one away match without a goal give 1.5, 3, 0 and 0.
C5_HomeAwayGoals ==
    (Returned /\ HomeAt(team1) # {} /\ AwayAt(team1) # {}) =>
        LET home == stats1.val.home
            away == stats1.val.away
        IN  /\ stats1.exc = "None"
            /\ IsMeanOver(home["Avg Goals Scored"], HomeAt(team1), "Goals_H_FT")
            /\ IsTotalOver(home["Total Goals Scored"], HomeAt(team1), "Goals_H_FT")
            /\ IsMeanOver(home["Avg Goals Conceded"], HomeAt(team1), "Goals_A_FT")
            /\ IsTotalOver(home["Total Goals Conceded"], HomeAt(team1), "Goals_A_FT")
            /\ IsMeanOver(away["Avg Goals Scored"], AwayAt(team1), "Goals_A_FT")
            /\ IsTotalOver(away["Total Goals Scored"], AwayAt(team1), "Goals_A_FT")
            /\ IsMeanOver(away["Avg Goals Conceded"], AwayAt(team1), "Goals_H_FT")
            /\ IsTotalOver(away["Total Goals Conceded"], AwayAt(team1), "Goals_H_FT")
            /\ (data = Frame(KnownColumns, ScenarioRaw) /\ team1 = "Alpha") =>
                  /\ home["Avg Goals Scored"] = <<3, 2>>
                  /\ home["Total Goals Scored"] = <<3, 1>>
                  /\ away["Avg Goals Scored"] = <<0, 1>>
                  /\ away["Total Goals Scored"] = <<0, 1>>

\* the statistics of "Alpha" in the three-row scenario
C5_Witness ==
    /\ Returned
    /\ data = Frame(KnownColumns, ScenarioRaw)
    /\ team1 = "Alpha"
    /\ stats1.val.home["Avg Goals Scored"] = <<3, 2>>

\* C6: every aggregate reported for a venue at which the team has no
\* match, the goal totals included, is undefined and never 0.
C6_EmptyVenueAllUndefined ==
    (Returned /\ HomeAt(team1) = {}) =>
        /\ \A k \in {"Avg Goals Scored", "Total Goals Scored",
                     "Avg Goals Conceded", "Total Goals Conceded"} :
              IsNaN(stats1.val.home[k])
        /\ \A k \in {"Avg Shots on Target", "Avg Shots off Target", "Avg Corners"} :
              IsNaN(stats1.val.home[k].mean)

\* C7: for a team that is in no row, an unknown-team error is reported
\* instead of a summary.
C7_UnknownTeamReported ==
    (Returned /\ PlaysAt(team1) = {}) => stats1.exc = "UnknownTeamError"

\* C8 as stated: the rows of the home summary and those of the away
\* summary are disjoint, and together they are the rows in which the team
\* appears, for every dataset.
C8_DisjointAndCovering ==
    Returned =>
        LET H == Labels(home_subset(team1, data))
            A == Labels(away_subset(team1, data))
        IN  /\ H \cap A = {}
            /\ H \cup A = {i - 1 : i \in PlaysAt(team1)}

\* C8 amended: together the two sets are the rows in which the team
\* appears, and the rows in both are exactly those with the team on both
\* sides (Home == Away == team).
C8_CoveringSharedOnlySelfMatch ==
    Returned =>
        LET H == Labels(home_subset(team1, data))
            A == Labels(away_subset(team1, data))
        IN  /\ H \cup A = {i - 1 : i \in PlaysAt(team1)}
            /\ H \cap A = {i - 1 : i \in HomeAt(team1) \cap AwayAt(team1)}
            /\ stats1.exc = "None"
            /\ IsTotalOver(stats1.val.home["Total Goals Scored"],
                           {l + 1 : l \in H}, "Goals_H_FT")
            /\ IsTotalOver(stats1.val.away["Total Goals Scored"],
                           {l + 1 : l \in A}, "Goals_A_FT")

\* a dataset with a row of the team against itself and an ordinary away row
C8_Witness ==
    /\ Returned
    /\ Len(data.rows) = 2
    /\ HomeAt(team1) = {1}
    /\ AwayAt(team1) = {1, 2}

Bins == {"Over 0.5", "Under 0.5", "Over 1.5", "Under 1.5", "Over 2.5", "Under 2.5"}

\* the odds column of a bin for a half ("FT" or "HT")
BinColumn(b, half) ==
    "Odd_"
    \o (IF b \in {"Over 0.5", "Over 1.5", "Over 2.5"} THEN "Over" ELSE "Under")
    \o (CASE b \in {"Over 0.5", "Under 0.5"} -> "05"
          [] b \in {"Over 1.5", "Under 1.5"} -> "15"
          [] OTHER -> "25")
    \o "_" \o half

AllRows == 1..Len(data.rows)

\* twice the mean of the two cells of row i that have a value, 0 if none has
TwiceRowMean(i, ft, ht) ==
    LET x == data.rows[i].cells[ft]
        y == data.rows[i].cells[ht]
    IN  CASE ~IsNaN(x) /\ ~IsNaN(y) -> x[1] + y[1]
          [] ~IsNaN(x) -> 2 * x[1]
          [] ~IsNaN(y) -> 2 * y[1]
          [] OTHER -> 0

RECURSIVE TwiceRowMeans(_, _, _)
TwiceRowMeans(I, ft, ht) ==
    IF I = {} THEN 0
    ELSE LET i == CHOOSE x \in I : TRUE
         IN  TwiceRowMean(i, ft, ht) + TwiceRowMeans(I \ {i}, ft, ht)

\* v is the mean over the rows of the per-row mean of columns ft and ht
IsMeanOfRowMeans(v, ft, ht) ==
    LET rows == {i \in AllRows : ~IsNaN(data.rows[i].cells[ft])
                                  \/ ~IsNaN(data.rows[i].cells[ht])}
    IN  IF rows = {} THEN IsNaN(v)
        ELSE ~IsNaN(v)
             /\ v[1] * 2 * Cardinality(rows) = TwiceRowMeans(rows, ft, ht) * v[2]

\* v is the mean of the means of columns ft and ht, a column without any
\* value left out
IsMeanOfColumnMeans(v, ft, ht) ==
    LET nf == SumOver(AllRows, ft)
        df == Present(AllRows, ft)
        nh == SumOver(AllRows, ht)
        dh == Present(AllRows, ht)
    IN  CASE df = 0 /\ dh = 0 -> IsNaN(v)
          [] df = 0 -> ~IsNaN(v) /\ v[1] * dh = nh * v[2]
          [] dh = 0 -> ~IsNaN(v) /\ v[1] * df = nf * v[2]
          [] OTHER -> ~IsNaN(v)
                      /\ v[1] * 2 * df * dh = (nf * dh + nh * df) * v[2]

\* the cells of a column, in positional order
Cells(c) == [i \in AllRows |-> data.rows[i].cells[c]]

\* C9 as stated: each over/under bin is the mean over the rows of the
\* per-row mean of its full-time and half-time columns, missing values
\* skipped at each step.
C9_MeanOfRowMeans ==
    Returned =>
        \A b \in Bins :
            IsMeanOfRowMeans(odds.val.odds_over_under[b],
                             BinColumn(b, "FT"), BinColumn(b, "HT"))

\* C9 amended: each over/under bin is the mean of the two column means,
\* the mean of the full-time column and the mean of the half-time column,
\* each over the rows that have a value in that column, a column without
\* any value left out; FT = [2.0, missing] and HT = [missing, 3.0] give
\* column means 2.0 and 3.0 and a bin value of 2.5.
C9_MeanOfColumnMeans ==
    Returned =>
        /\ odds.exc = "None"
        /\ \A b \in Bins :
              IsMeanOfColumnMeans(odds.val.odds_over_under[b],
                                  BinColumn(b, "FT"), BinColumn(b, "HT"))
        /\ (/\ Cells("Odd_Over05_FT") = << Num(2), NaN >>
            /\ Cells("Odd_Over05_HT") = << NaN, Num(3) >>)
              => odds.val.odds_over_under["Over 0.5"] = <<5, 2>>

\* a dataset on which the two readings differ: FT = [1, 3], HT = [missing, 3]
\* has column means 2 and 3 and row means 1 and 3
C9_Witness ==
    /\ Returned
    /\ Cells("Odd_Over05_FT") = << Num(1), Num(3) >>
    /\ Cells("Odd_Over05_HT") = << NaN, Num(3) >>
    /\ odds.val.odds_over_under["Over 0.5"] = <<5, 2>>

ResultColumn(o) ==
    CASE o = "Home Win" -> "Odd_H_FT"
      [] o = "Draw" -> "Odd_D_FT"
      [] OTHER -> "Odd_A_FT"

\* C10: every mean leaves out the rows without a value in its column and
\* puts nothing in their place; an entry computed from a column without any
\* value is undefined, for the three result odds and for each over/under
\* bin; a single-row dataset yields that row's value.
C10_MissingColumnUndefined ==
    Returned =>
        /\ \A o \in {"Home Win", "Draw", "Away Win"} :
              /\ IsMeanOver(odds.val.avg_odds[o], AllRows, ResultColumn(o))
              /\ Len(data.rows) = 1 =>
                    odds.val.avg_odds[o] = data.rows[1].cells[ResultColumn(o)]
        /\ \A b \in Bins :
              (\/ Present(AllRows, BinColumn(b, "FT")) = 0
               \/ Present(AllRows, BinColumn(b, "HT")) = 0)
                 => IsNaN(odds.val.odds_over_under[b])

====
